---------------------------- MODULE Spec2Model ----------------------------
(***************************************************************************)
(* A model of DataValidator.py: validate_dataframe and issues_to_df.       *)
(*                                                                         *)
(* A cell of the DataFrame is a record [t, n, s]: t is the kind of the     *)
(* value ("nan" for pandas' missing marker, "int" for a number, "str" for  *)
(* text), n the number, s the text as a sequence of one-character strings. *)
(* The index is the RangeIndex pd.read_csv gives: row i of the model       *)
(* (1-based) has index label i - 1.                                        *)
(* A dict of rules (expected_types, ranges, allowed_values) is the         *)
(* sequence of its items in insertion order, with distinct keys; an        *)
(* Optional list is Absent or Some(list); bounds of a range are whole      *)
(* numbers printed as floats.  Each evaluator of validate_dataframe is one *)
(* step; the steps run in the order of the source.                         *)
(***************************************************************************)
EXTENDS Integers, Sequences, FiniteSets, TLC

VARIABLES df, cfg, pc, issues, summary, last, runs, table

vars == <<df, cfg, pc, issues, summary, last, runs, table>>

(* ------------------------------ bounds -------------------------------- *)

MaxRows == 2

MaxRuns == 2

MaxDupRows == 3

(* ------------------------------ values -------------------------------- *)

None == [t |-> "None", n |-> 0, s |-> <<>>]

NaN == [t |-> "nan", n |-> 0, s |-> <<>>]

IntV(k) == [t |-> "int", n |-> k, s |-> <<>>]

StrV(cs) == [t |-> "str", n |-> 0, s |-> cs]

NoRow == 0 - 1

NoColumn == "<None>"

Absent == [some |-> FALSE, v |-> <<>>]

Some(x) == [some |-> TRUE, v |-> x]

Truthy(o) == o.some /\ o.v # <<>>

isna(v) == v.t = "nan"

(* ------------------------------ text ---------------------------------- *)

RECURSIVE Join(_, _)
Join(sep, strs) ==
    IF strs = <<>> THEN ""
    ELSE IF Len(strs) = 1 THEN strs[1]
    ELSE strs[1] \o sep \o Join(sep, Tail(strs))

Text(cs) == Join("", cs)

DigitChars == <<"0", "1", "2", "3", "4", "5", "6", "7", "8", "9">>

IsDigit(c) == \E i \in 1..10 : DigitChars[i] = c

DigitVal(c) == (CHOOSE i \in 1..10 : DigitChars[i] = c) - 1

RECURSIVE ParseDigits(_, _)
ParseDigits(cs, acc) ==
    IF cs = <<>> THEN acc
    ELSE ParseDigits(Tail(cs), 10 * acc + DigitVal(cs[1]))

RECURSIVE NatChars(_)
NatChars(k) ==
    IF k < 10 THEN <<DigitChars[k + 1]>>
    ELSE NatChars(k \div 10) \o <<DigitChars[(k % 10) + 1]>>

IntChars(k) == IF k < 0 THEN <<"-">> \o NatChars(0 - k) ELSE NatChars(k)

FloatText(k) == ToString(k) \o ".0"

RECURSIVE Strip(_)
Strip(cs) ==
    IF cs # <<>> /\ cs[1] = " " THEN Strip(Tail(cs))
    ELSE IF cs # <<>> /\ cs[Len(cs)] = " " THEN Strip(SubSeq(cs, 1, Len(cs) - 1))
    ELSE cs

(* pd.to_numeric(..., errors="coerce") on one cell: a number keeps its     *)
(* value, text is parsed ([+-]digits, surrounding blanks ignored), and     *)
(* anything else, the missing marker included, becomes NaN (ok = FALSE).   *)
to_numeric(v) ==
    IF v.t = "int" THEN [ok |-> TRUE, n |-> v.n]
    ELSE IF v.t = "str"
    THEN LET cs   == Strip(v.s)
             neg  == cs # <<>> /\ cs[1] = "-"
             sgn  == cs # <<>> /\ cs[1] \in {"-", "+"}
             body == IF sgn THEN Tail(cs) ELSE cs
         IN  IF body # <<>> /\ \A i \in 1..Len(body) : IsDigit(body[i])
             THEN [ok |-> TRUE,
                   n  |-> IF neg THEN 0 - ParseDigits(body, 0) ELSE ParseDigits(body, 0)]
             ELSE [ok |-> FALSE, n |-> 0]
    ELSE [ok |-> FALSE, n |-> 0]

(* pd.to_datetime(..., errors="coerce") on one cell: a number is a count of *)
(* nanoseconds since the epoch, text must parse as a date.                  *)
to_datetime(v) ==
    IF v.t = "int" THEN TRUE
    ELSE IF v.t = "str"
    THEN LET cs == Strip(v.s)
         IN  cs # <<>> /\ \A i \in 1..Len(cs) : IsDigit(cs[i])
    ELSE FALSE

(* isinstance(x, (list, dict, set, tuple)) *)
IsComposite(v) == v.t \in {"list", "dict", "set", "tuple"}

(* astype(str) *)
astype_str(v) == IF v.t = "int" THEN IntChars(v.n) ELSE v.s

str_contains(cs, c) == \E i \in 1..Len(cs) : cs[i] = c

(* repr() of a cell, as an f-string prints the elements of a list *)
Repr(v) ==
    IF v.t = "int" THEN ToString(v.n)
    ELSE IF v.t = "str" THEN "'" \o Text(v.s) \o "'"
    ELSE IF v.t = "nan" THEN "nan"
    ELSE "None"

ListRepr(vs) == "[" \o Join(", ", [i \in 1..Len(vs) |-> Repr(vs[i])]) \o "]"


(* --------------------------- the DataFrame ---------------------------- *)

Range(f) == {f[i] : i \in DOMAIN f}

Index(d) == 1..Len(d.rows)

HasColumn(d, c) == c \in Range(d.columns)

at(d, i, c) == d.rows[i][c]

(* df.index[mask]: the rows a boolean mask selects, in index order. *)
RowsWhere(d, mask) == SelectSeq([i \in Index(d) |-> i], LAMBDA i : mask[i])

RECURSIVE Flatten(_)
Flatten(ss) == IF ss = <<>> THEN <<>> ELSE ss[1] \o Flatten(Tail(ss))

(* A slip: rows count as equal when they agree on any one compared column. *)
duplicatedAnyColumn(d, subset, keep, i) ==
    LET same(j) == \E c \in Range(subset) : at(d, i, c) = at(d, j, c)
    IN  \/ keep \in {"first", "False"} /\ \E j \in Index(d) : j < i /\ same(j)
        \/ keep \in {"last", "False"}  /\ \E j \in Index(d) : j > i /\ same(j)

(* DataFrame.duplicated(subset, keep): with keep = "first" every row equal *)
(* on the subset to an earlier row is marked, with "last" every row equal  *)
(* to a later row, with False both; missing markers compare equal.         *)
duplicated(d, subset, keep, i) ==
    LET same(j) == \A c \in Range(subset) : at(d, i, c) = at(d, j, c)
    IN  \/ keep \in {"first", "False"} /\ \E j \in Index(d) : j < i /\ same(j)
        \/ keep \in {"last", "False"}  /\ \E j \in Index(d) : j > i /\ same(j)

isin(v, allowed) == \E k \in 1..Len(allowed) : allowed[k] = v

(* ----------------------------- Issue ---------------------------------- *)

Issue(row_index, column, issue, value) ==
    [row_index |-> row_index, column |-> column, issue |-> issue, value |-> value]

(* A slip: insert(0, ...) in place of append. *)
add_issue_front(iss, row_index, column, issue, value) ==
    <<Issue(row_index, column, issue, value)>> \o iss

add_issue(iss, row_index, column, issue, value) ==
    Append(iss, Issue(row_index, column, issue, value))

RECURSIVE AddAll(_, _)
AddAll(iss, new) ==
    IF new = <<>> THEN iss
    ELSE AddAll(add_issue(iss, new[1].row_index, new[1].column, new[1].issue,
                          new[1].value),
                Tail(new))

(* ------------------------- issue messages ----------------------------- *)

MsgMissingColumn == "Missing required column"

MsgMissingValue == "Missing value"

MsgMissingKey == "Missing key column for duplicate check"

MsgDuplicateKey == "Duplicate key"

MsgDuplicateRow == "Duplicate row (entire row)"

MsgUnknownType(type_name) == "Unknown expected type '" \o type_name \o "'"

MsgTypeMismatch(type_name) == "Type mismatch (expected " \o type_name \o ")"

MsgBelowMin(min_val) == "Value below min (" \o FloatText(min_val.n) \o ")"

MsgAboveMax(max_val) == "Value above max (" \o FloatText(max_val.n) \o ")"

MsgNotAllowed(allowed) == "Value not allowed (allowed=" \o ListRepr(allowed) \o ")"

MsgInvalidEmail == "Invalid email (missing '@')"

(* ------------------- the evaluators of validate_dataframe ------------- *)

RequiredIssues(d, required_cols) ==
    LET missing_required_cols == SelectSeq(required_cols, LAMBDA c : ~HasColumn(d, c))
        present_required_cols == SelectSeq(required_cols, LAMBDA c : HasColumn(d, c))
        missing_mask(c) == [i \in Index(d) |-> isna(at(d, i, c))]
        missing(c) == LET idx == RowsWhere(d, missing_mask(c))
                      IN  [k \in DOMAIN idx |->
                              Issue(idx[k] - 1, c, MsgMissingValue, None)]
    IN  [k \in DOMAIN missing_required_cols |->
            Issue(NoRow, missing_required_cols[k], MsgMissingColumn, None)]
        \o Flatten([k \in DOMAIN present_required_cols |->
                       missing(present_required_cols[k])])

(* A slip: keep=False left out, so pandas' default keep="first" applies. *)
KeepFirst == "first"

Keep == "False"

DuplicateIssues(d, unique_key_cols) ==
    IF Truthy(unique_key_cols)
    THEN LET key_cols == SelectSeq(unique_key_cols.v, LAMBDA c : HasColumn(d, c))
             absent   == SelectSeq(unique_key_cols.v, LAMBDA c : ~HasColumn(d, c))
             key(i)   == [c \in Range(key_cols) |-> at(d, i, c)]
             dup_mask == [i \in Index(d) |-> duplicated(d, key_cols, Keep, i)]
             idx      == RowsWhere(d, dup_mask)
         IN  [k \in DOMAIN absent |-> Issue(NoRow, absent[k], MsgMissingKey, None)]
             \o (IF key_cols # <<>>
                 THEN [k \in DOMAIN idx |->
                          Issue(idx[k] - 1, Join(",", key_cols), MsgDuplicateKey,
                                key(idx[k]))]
                 ELSE <<>>)
    ELSE LET dup_mask == [i \in Index(d) |-> duplicated(d, d.columns, Keep, i)]
             idx      == RowsWhere(d, dup_mask)
         IN  [k \in DOMAIN idx |-> Issue(idx[k] - 1, NoColumn, MsgDuplicateRow, None)]

KnownType(type_name) == type_name \in {"int", "float", "datetime", "string"}

TypeBad(type_name, v) ==
    IF type_name \in {"int", "float"} THEN ~to_numeric(v).ok
    ELSE IF type_name = "datetime" THEN ~to_datetime(v)
    ELSE IsComposite(v)

(* bad[bad].index: the rows with a value that is present and bad. *)
TypeMismatches(d, col, type_name) ==
    LET bad == [i \in Index(d) |-> ~isna(at(d, i, col)) /\ TypeBad(type_name, at(d, i, col))]
        idx == RowsWhere(d, bad)
    IN  [k \in DOMAIN idx |->
            Issue(idx[k] - 1, col, MsgTypeMismatch(type_name), at(d, idx[k], col))]

(* A slip: the type name is looked at before the column's presence. *)
TypeIssuesOfNameFirst(d, col, type_name) ==
    IF ~KnownType(type_name)
    THEN <<Issue(NoRow, col, MsgUnknownType(type_name), None)>>
    ELSE IF ~HasColumn(d, col) THEN <<>>
    ELSE TypeMismatches(d, col, type_name)

TypeIssuesOf(d, col, type_name) ==
    IF ~HasColumn(d, col) THEN <<>>
    ELSE IF ~KnownType(type_name)
    THEN <<Issue(NoRow, col, MsgUnknownType(type_name), None)>>
    ELSE TypeMismatches(d, col, type_name)

(* A slip: break in place of continue after an unknown type name. *)
RECURSIVE TypeIssuesBreak(_, _)
TypeIssuesBreak(d, expected_types) ==
    IF expected_types = <<>> THEN <<>>
    ELSE LET e == expected_types[1]
         IN  IF HasColumn(d, e[1]) /\ ~KnownType(e[2])
             THEN TypeIssuesOf(d, e[1], e[2])
             ELSE TypeIssuesOf(d, e[1], e[2]) \o TypeIssuesBreak(d, Tail(expected_types))

TypeIssues(d, expected_types) ==
    Flatten([k \in DOMAIN expected_types |->
                TypeIssuesOf(d, expected_types[k][1], expected_types[k][2])])

(* A slip: the comparison written as a negation, which a NaN satisfies. *)
BelowNegated(v, min_val) == ~(to_numeric(v).ok /\ to_numeric(v).n >= min_val.n)

Below(v, min_val) == to_numeric(v).ok /\ to_numeric(v).n < min_val.n

Above(v, max_val) == to_numeric(v).ok /\ to_numeric(v).n > max_val.n

RangeIssuesOf(d, col, min_val, max_val) ==
    IF ~HasColumn(d, col) THEN <<>>
    ELSE LET below == RowsWhere(d, [i \in Index(d) |-> Below(at(d, i, col), min_val)])
             above == RowsWhere(d, [i \in Index(d) |-> Above(at(d, i, col), max_val)])
         IN  (IF min_val # None
              THEN [k \in DOMAIN below |->
                       Issue(below[k] - 1, col, MsgBelowMin(min_val), at(d, below[k], col))]
              ELSE <<>>)
             \o
             (IF max_val # None
              THEN [k \in DOMAIN above |->
                       Issue(above[k] - 1, col, MsgAboveMax(max_val), at(d, above[k], col))]
              ELSE <<>>)

RangeIssues(d, ranges) ==
    Flatten([k \in DOMAIN ranges |->
                RangeIssuesOf(d, ranges[k][1], ranges[k][2], ranges[k][3])])

(* A slip: the exemption of missing values left out. *)
NotAllowedNoNa(v, allowed) == ~isin(v, allowed)

NotAllowed(v, allowed) == ~isin(v, allowed) /\ ~isna(v)

AllowedIssuesOf(d, col, allowed) ==
    IF ~HasColumn(d, col) THEN <<>>
    ELSE LET bad == [i \in Index(d) |-> NotAllowed(at(d, i, col), allowed)]
             idx == RowsWhere(d, bad)
         IN  [k \in DOMAIN idx |->
                 Issue(idx[k] - 1, col, MsgNotAllowed(allowed), at(d, idx[k], col))]

AllowedIssues(d, allowed_values) ==
    Flatten([k \in DOMAIN allowed_values |->
                AllowedIssuesOf(d, allowed_values[k][1], allowed_values[k][2])])

EmailIssuesOf(d, col) ==
    IF ~HasColumn(d, col) THEN <<>>
    ELSE LET bad_mask == [i \in Index(d) |->
                             /\ ~isna(at(d, i, col))
                             /\ ~str_contains(astype_str(at(d, i, col)), "@")]
             idx == RowsWhere(d, bad_mask)
         IN  [k \in DOMAIN idx |->
                 Issue(idx[k] - 1, col, MsgInvalidEmail, at(d, idx[k], col))]

EmailIssues(d, email_cols) ==
    IF Truthy(email_cols)
    THEN Flatten([k \in DOMAIN email_cols.v |-> EmailIssuesOf(d, email_cols.v[k])])
    ELSE <<>>

value_counts(iss) ==
    [m \in {iss[k].issue : k \in 1..Len(iss)} |->
        Cardinality({k \in 1..Len(iss) : iss[k].issue = m})]

(* A slip: total_issues counts the kinds of issue, not the issues. *)
SummaryCountsKinds(d, iss) ==
    [rows         |-> Len(d.rows),
     cols         |-> Len(d.columns),
     total_issues |-> Cardinality(DOMAIN value_counts(iss)),
     issue_types  |-> IF iss # <<>> THEN value_counts(iss) ELSE <<>>]

Summary(d, iss) ==
    [rows         |-> Len(d.rows),
     cols         |-> Len(d.columns),
     total_issues |-> Len(iss),
     issue_types  |-> IF iss # <<>> THEN value_counts(iss) ELSE <<>>]

(* --------------------------- issues_to_df ----------------------------- *)

IssueKeys == <<"row_index", "column", "issue", "value">>

(* pd.DataFrame(list of dicts): the columns are the keys of the dicts in   *)
(* the order they are first met, one row per dict.                         *)
RECURSIVE FrameColumns(_, _)
FrameColumns(keylists, acc) ==
    IF keylists = <<>> THEN acc
    ELSE FrameColumns(Tail(keylists),
                      acc \o SelectSeq(keylists[1], LAMBDA k : k \notin Range(acc)))

issues_to_df(iss) ==
    [columns |-> FrameColumns([k \in 1..Len(iss) |-> IssueKeys], <<>>),
     data    |-> iss]

(* ------------------------ the state machine --------------------------- *)

(* A slip: the list outlives the call, as a shared accumulator would. *)
KeptIssues(old) == old

(* Line 29: each call starts from its own empty list. *)
FreshIssues(old) == <<>>

(* Lines 19-30: validate_dataframe is entered. *)
Call ==
    /\ pc = "call"
    /\ issues' = FreshIssues(issues)
    /\ summary' = <<>>
    /\ pc' = "required"
    /\ UNCHANGED <<df, cfg, last, runs, table>>

(* Lines 32-43 *)
CheckRequired ==
    /\ pc = "required"
    /\ issues' = AddAll(issues, RequiredIssues(df, cfg.required_cols))
    /\ pc' = "duplicates"
    /\ UNCHANGED <<df, cfg, summary, last, runs, table>>

(* Lines 45-59 *)
CheckDuplicates ==
    /\ pc = "duplicates"
    /\ issues' = AddAll(issues, DuplicateIssues(df, cfg.unique_key_cols))
    /\ pc' = "types"
    /\ UNCHANGED <<df, cfg, summary, last, runs, table>>

(* Lines 61-80 *)
CheckTypes ==
    /\ pc = "types"
    /\ issues' = AddAll(issues, TypeIssues(df, cfg.expected_types))
    /\ pc' = "ranges"
    /\ UNCHANGED <<df, cfg, summary, last, runs, table>>

(* Lines 82-97 *)
CheckRanges ==
    /\ pc = "ranges"
    /\ issues' = AddAll(issues, RangeIssues(df, cfg.ranges))
    /\ pc' = "allowed"
    /\ UNCHANGED <<df, cfg, summary, last, runs, table>>

(* Lines 99-105 *)
CheckAllowed ==
    /\ pc = "allowed"
    /\ issues' = AddAll(issues, AllowedIssues(df, cfg.allowed_values))
    /\ pc' = "email"
    /\ UNCHANGED <<df, cfg, summary, last, runs, table>>

(* Lines 107-115 *)
CheckEmail ==
    /\ pc = "email"
    /\ issues' = AddAll(issues, EmailIssues(df, cfg.email_cols))
    /\ pc' = "summary"
    /\ UNCHANGED <<df, cfg, summary, last, runs, table>>

(* Lines 117-122: the summary is computed and the pair returned. *)
Summarize ==
    /\ pc = "summary"
    /\ summary' = Summary(df, issues)
    /\ pc' = "done"
    /\ UNCHANGED <<df, cfg, issues, last, runs, table>>

(* Lines 125-131: the returned list is handed to issues_to_df. *)
Export ==
    /\ pc = "done"
    /\ table' = issues_to_df(issues)
    /\ pc' = "exported"
    /\ UNCHANGED <<df, cfg, issues, summary, last, runs>>

(* The caller keeps the returned pair and calls validate_dataframe again   *)
(* with the same DataFrame and the same rules.                             *)
CallAgain ==
    /\ pc = "done"
    /\ runs < MaxRuns
    /\ last' = [issues |-> issues, summary |-> summary]
    /\ runs' = runs + 1
    /\ pc' = "call"
    /\ UNCHANGED <<df, cfg, issues, summary, table>>

Next ==
    \/ Call
    \/ CheckRequired
    \/ CheckDuplicates
    \/ CheckTypes
    \/ CheckRanges
    \/ CheckAllowed
    \/ CheckEmail
    \/ Summarize
    \/ Export
    \/ CallAgain

(* The whole of validate_dataframe's issue list on (d, c). *)
Validate(d, c) ==
    RequiredIssues(d, c.required_cols)
    \o DuplicateIssues(d, c.unique_key_cols)
    \o TypeIssues(d, c.expected_types)
    \o RangeIssues(d, c.ranges)
    \o AllowedIssues(d, c.allowed_values)
    \o EmailIssues(d, c.email_cols)

(* ----------------------------- inputs --------------------------------- *)

Config(req, keys, types, rng, allowed, emails) ==
    [required_cols   |-> req,
     unique_key_cols |-> keys,
     expected_types  |-> types,
     ranges          |-> rng,
     allowed_values  |-> allowed,
     email_cols      |-> emails]

EmptyConfig == Config(<<>>, Absent, <<>>, <<>>, <<>>, Absent)

(* The DataFrames of at most maxRows rows over the columns cols, the cells *)
(* of column c drawn from dom[c].                                          *)
Frames(cols, dom, maxRows) ==
    LET cells == UNION {dom[c] : c \in Range(cols)}
        rows  == {r \in [Range(cols) -> cells] : \A c \in Range(cols) : r[c] \in dom[c]}
    IN  {[columns |-> cols, rows |-> rs] :
            rs \in UNION {[1..n -> rows] : n \in 0..maxRows}}

InitWith(frames, configs) ==
    /\ df \in frames
    /\ cfg \in configs
    /\ pc = "call"
    /\ issues = <<>>
    /\ summary = <<>>
    /\ last = [issues |-> <<>>, summary |-> <<>>]
    /\ runs = 1
    /\ table = [columns |-> <<>>, data |-> <<>>]

(* A CSV with the columns id and email; the rules also name age, which the *)
(* file does not have, and list it twice among the required columns.       *)
MixedFrames ==
    Frames(<<"id", "email">>,
           [id    |-> {NaN, IntV(1), IntV(0 - 5)},
            email |-> {StrV(<<"x">>), StrV(<<"a", "@">>)}],
           MaxRows)

MixedConfigs ==
    {Config(req, keys, types, rng, allowed, emails) :
        req     \in {<<>>, <<"id", "age", "email", "age">>},
        keys    \in {Absent, Some(<<"id", "age">>)},
        types   \in {<<>>, <<<<"id", "integer">>, <<"email", "int">>, <<"age", "bogus">>>>},
        rng     \in {<<>>, <<<<"id", IntV(0), IntV(0)>>, <<"age", IntV(0), None>>>>},
        allowed \in {<<>>, <<<<"id", <<IntV(1)>>>>, <<"age", <<>>>>>>},
        emails  \in {Absent, Some(<<"email", "age", "id">>)}}

Init == InitWith(MixedFrames, MixedConfigs)

Spec == Init /\ [][Next]_vars

(* ------------------------- helpers of the claims ----------------------- *)

Returned == pc \in {"done", "exported"}

Count(seq, P(_)) == Cardinality({k \in DOMAIN seq : P(seq[k])})

Occurrences(seq, x) == Cardinality({k \in DOMAIN seq : seq[k] = x})

Keys(pairs) == {pairs[k][1] : k \in DOMAIN pairs}

(* The columns some rule of the configuration names. *)
Referenced(c) ==
    Range(c.required_cols) \cup Range(c.unique_key_cols.v) \cup Keys(c.expected_types)
    \cup Keys(c.ranges) \cup Keys(c.allowed_values) \cup Range(c.email_cols.v)

AbsentColumns == Referenced(cfg) \ Range(df.columns)

(* The evaluator an issue message comes from, 1 to 7 in the order of the   *)
(* code: missing required column, missing value, duplicates, types,        *)
(* ranges, allowed values, email.                                          *)
Evaluator(msg) ==
    IF msg = MsgMissingColumn THEN 1
    ELSE IF msg = MsgMissingValue THEN 2
    ELSE IF msg \in {MsgMissingKey, MsgDuplicateKey, MsgDuplicateRow} THEN 3
    ELSE IF \E e \in Range(cfg.expected_types) :
                msg \in {MsgUnknownType(e[2]), MsgTypeMismatch(e[2])} THEN 4
    ELSE IF \E r \in Range(cfg.ranges) :
                \/ r[2] # None /\ msg = MsgBelowMin(r[2])
                \/ r[3] # None /\ msg = MsgAboveMax(r[3]) THEN 5
    ELSE IF \E a \in Range(cfg.allowed_values) : msg = MsgNotAllowed(a[2]) THEN 6
    ELSE IF msg = MsgInvalidEmail THEN 7
    ELSE 0

(* ------------------------------- C1 ------------------------------------ *)

(* C1: whenever validate_dataframe has returned, total_issues of the       *)
(* summary is the number of Issue records of the returned list.            *)
C1_TotalIssuesIsLength ==
    Returned => summary.total_issues = Len(issues)

(* A run that returned several issues, two of them of the same kind. *)
C1_Witness ==
    /\ pc = "done"
    /\ Len(issues) >= 3
    /\ \E i, j \in DOMAIN issues : i # j /\ issues[i].issue = issues[j].issue

(* ------------------------------- C2 ------------------------------------ *)

DistinctRows == \A i, j \in Index(df) : df.rows[i] = df.rows[j] => i = j

(* C2 as stated: with the empty configuration, every non-empty dataset     *)
(* gets an empty issue list and total_issues = 0.                          *)
C2_EmptyConfigNoIssues ==
    (Returned /\ cfg = EmptyConfig /\ df.rows # <<>>)
        => (issues = <<>> /\ summary.total_issues = 0)

(* C2 amended: with the empty configuration, every non-empty dataset in    *)
(* which no two rows are identical gets an empty issue list and            *)
(* total_issues = 0; identical rows are reported by the whole-row          *)
(* duplicate check, which runs when no key is given.                       *)
C2_EmptyConfigDistinctRowsNoIssues ==
    (Returned /\ cfg = EmptyConfig /\ df.rows # <<>> /\ DistinctRows)
        => (issues = <<>> /\ summary.total_issues = 0)

(* Two different rows that agree on one column, under the empty rules. *)
C2_Witness ==
    /\ pc = "done"
    /\ cfg = EmptyConfig
    /\ Len(df.rows) = 2
    /\ DistinctRows
    /\ df.rows[1]["id"] = df.rows[2]["id"]
    /\ issues = <<>>

(* ------------------------------- C3 ------------------------------------ *)

IsMissingIssue(x, c) ==
    x.row_index = NoRow /\ x.column = c /\ x.issue \in {MsgMissingColumn, MsgMissingKey}

(* C3 as stated: a column some rule names and the dataset lacks gets no    *)
(* row-level issue and exactly one dataset-level "missing" issue.          *)
C3_AbsentColumnExactlyOneMissing ==
    Returned =>
        \A c \in AbsentColumns :
            /\ \A k \in DOMAIN issues :
                    issues[k].column = c => issues[k].row_index = NoRow
            /\ Count(issues, LAMBDA x : IsMissingIssue(x, c)) = 1

(* C3 amended: for a column the dataset lacks, every issue that names it   *)
(* is a dataset-level "missing" issue: one "Missing required column" per   *)
(* listing of the column in required_cols and one "Missing key column for  *)
(* duplicate check" per listing in a non-empty unique_key_cols; type,      *)
(* range, allowed-value and email rules emit nothing for it.               *)
C3_AbsentColumnOnlyMissingIssues ==
    Returned =>
        \A c \in AbsentColumns :
            /\ \A k \in DOMAIN issues :
                    issues[k].column = c => IsMissingIssue(issues[k], c)
            /\ Count(issues, LAMBDA x : x.column = c /\ x.issue = MsgMissingColumn)
                    = Occurrences(cfg.required_cols, c)
            /\ Count(issues, LAMBDA x : x.column = c /\ x.issue = MsgMissingKey)
                    = Occurrences(cfg.unique_key_cols.v, c)

(* The absent column age is named by every kind of rule: required, key,    *)
(* type, range, allowed values and email.                                  *)
C3_Witness ==
    /\ pc = "done"
    /\ df.rows # <<>>
    /\ "age" \in AbsentColumns
    /\ "age" \in Range(cfg.required_cols) \cap Range(cfg.unique_key_cols.v)
                 \cap Keys(cfg.expected_types) \cap Keys(cfg.ranges)
                 \cap Keys(cfg.allowed_values) \cap Range(cfg.email_cols.v)
    /\ Count(issues, LAMBDA x : IsMissingIssue(x, "age")) = 3

(* ------------------------------- C4 ------------------------------------ *)

(* Datasets for the duplicate check: a number and the text of the same     *)
(* digit are different values, two missing cells are equal.                *)
DupFrames ==
    Frames(<<"id", "email">>,
           [id    |-> {NaN, IntV(1), StrV(<<"1">>)},
            email |-> {NaN, StrV(<<"x">>)}],
           MaxDupRows)

DupConfigs ==
    {Config(<<>>, keys, <<>>, <<>>, <<>>, Absent) :
        keys \in {Absent, Some(<<>>), Some(<<"id">>), Some(<<"email", "id">>),
                  Some(<<"age", "id">>), Some(<<"age">>)}}

InitDup == InitWith(DupFrames, DupConfigs)

SpecDup == InitDup /\ [][Next]_vars

Keyed == cfg.unique_key_cols.some /\ cfg.unique_key_cols.v # <<>>

(* The columns the duplicate check compares. *)
Compared ==
    IF Keyed THEN Range(cfg.unique_key_cols.v) \cap Range(df.columns)
    ELSE Range(df.columns)

OtherRowEqual(i) ==
    \E j \in Index(df) : j # i /\ \A c \in Compared : df.rows[i][c] = df.rows[j][c]

DuplicateIssuesOfRow(i) ==
    Count(issues, LAMBDA x : /\ x.row_index = i - 1
                             /\ x.issue \in {MsgDuplicateKey, MsgDuplicateRow})

(* C4 as stated: a row gets a duplicate issue exactly when another row is  *)
(* equal to it on the compared columns (the present key columns in keyed   *)
(* mode, all columns otherwise).                                           *)
C4_DuplicateIffOtherRowEqual ==
    Returned =>
        \A i \in Index(df) : (DuplicateIssuesOfRow(i) >= 1) <=> OtherRowEqual(i)

(* C4 amended: when the check compares at least one column, a row gets a   *)
(* duplicate issue (exactly one, of the kind of the mode) exactly when     *)
(* another row is equal to it on the compared columns, the first row of a  *)
(* group included; in keyed mode with no key column present in the dataset *)
(* no row gets a duplicate issue.                                          *)
C4_DuplicateIffOtherRowEqualOnSomeColumn ==
    Returned =>
        \A i \in Index(df) :
            IF Compared # {}
            THEN /\ DuplicateIssuesOfRow(i) = (IF OtherRowEqual(i) THEN 1 ELSE 0)
                 /\ \A k \in DOMAIN issues :
                        issues[k].row_index = i - 1 =>
                            issues[k].issue = (IF Keyed THEN MsgDuplicateKey
                                               ELSE MsgDuplicateRow)
            ELSE DuplicateIssuesOfRow(i) = 0

(* Keyed mode with one key column absent: rows 1 and 3 share the key (a    *)
(* missing id) and differ elsewhere, row 2 is alone in its group; the      *)
(* first row of the pair is flagged, row 2 is not.                         *)
C4_Witness ==
    /\ pc = "done"
    /\ cfg.unique_key_cols = Some(<<"age", "id">>)
    /\ Len(df.rows) = 3
    /\ df.rows[1]["id"] = NaN /\ df.rows[3]["id"] = NaN
    /\ df.rows[1]["email"] # df.rows[3]["email"]
    /\ df.rows[2]["id"] = IntV(1)
    /\ DuplicateIssuesOfRow(1) = 1
    /\ DuplicateIssuesOfRow(2) = 0
    /\ DuplicateIssuesOfRow(3) = 1

(* ------------------------------- C5 ------------------------------------ *)

RangeFrames ==
    Frames(<<"age">>,
           [age |-> {NaN, IntV(0 - 5), IntV(30), IntV(130), StrV(<<"x">>),
                     StrV(<<"-", "5">>), StrV(<<"a", "@">>)}],
           MaxRows)

RangeConfigs ==
    {Config(<<>>, Some(<<"zip">>), types, <<<<"age", mn, mx>>>>, <<>>, Absent) :
        types \in {<<>>, <<<<"age", "int">>>>},
        mn    \in {None, IntV(0), IntV(50)},
        mx    \in {None, IntV(120), IntV(10)}}

InitRange == InitWith(RangeFrames, RangeConfigs)

SpecRange == InitRange /\ [][Next]_vars

(* A cell numeric coercion fails on: the missing marker, or text with a    *)
(* character no numeral has.                                               *)
NotANumber(v) ==
    \/ v.t = "nan"
    \/ v.t = "str" /\ \E k \in DOMAIN v.s :
            v.s[k] \notin (Range(DigitChars) \cup {"-", "+", " ", ".", "e", "E"})

IsRangeIssue(x, r) ==
    /\ x.column = r[1]
    /\ \/ r[2] # None /\ x.issue = MsgBelowMin(r[2])
       \/ r[3] # None /\ x.issue = MsgAboveMax(r[3])

(* C5: under a range rule on an existing column, a cell that fails numeric *)
(* coercion (missing, or text that is no number) gets no below-min and no  *)
(* above-max issue, whatever the bounds.                                   *)
C5_NoRangeIssueWithoutNumber ==
    Returned =>
        \A r \in Range(cfg.ranges) :
            r[1] \in Range(df.columns) =>
                \A i \in Index(df) :
                    NotANumber(df.rows[i][r[1]]) =>
                        \A k \in DOMAIN issues :
                            ~(issues[k].row_index = i - 1 /\ IsRangeIssue(issues[k], r))

(* age:int with range 0:120 on the rows "x" and "-5": the text "x" gets a  *)
(* type mismatch and no range issue, the numeric text "-5" is below min.   *)
C5_Witness ==
    /\ pc = "done"
    /\ cfg.expected_types = <<<<"age", "int">>>>
    /\ cfg.ranges = <<<<"age", IntV(0), IntV(120)>>>>
    /\ Len(df.rows) = 2
    /\ df.rows[1]["age"] = StrV(<<"x">>)
    /\ df.rows[2]["age"] = StrV(<<"-", "5">>)
    /\ \E k \in DOMAIN issues :
            /\ issues[k] = Issue(0, "age", MsgTypeMismatch("int"), StrV(<<"x">>))
    /\ \E k \in DOMAIN issues :
            /\ issues[k] = Issue(1, "age", "Value below min (0.0)", StrV(<<"-", "5">>))
    /\ Count(issues, LAMBDA x : x.row_index = 0) = 1

(* ------------------------------- C6 ------------------------------------ *)

SK == StrV(<<"S", "K">>)

CZ == StrV(<<"C", "Z">>)

AT == StrV(<<"A", "T">>)

AllowedFrames ==
    Frames(<<"country">>, [country |-> {NaN, SK, AT, IntV(1)}], MaxRows)

AllowedConfigs ==
    {Config(req, Some(<<"zip">>), <<>>, <<>>, allowed, Absent) :
        req     \in {<<>>, <<"country">>},
        allowed \in {<<<<"country", <<>>>>>>,
                     <<<<"country", <<SK>>>>>>,
                     <<<<"country", <<SK, CZ>>>>>>,
                     <<<<"country", <<AT, SK, AT>>>>>>,
                     <<<<"country", <<IntV(1), NaN>>>>>>,
                     <<<<"zip", <<SK>>>>, <<"country", <<CZ>>>>>>}}

InitAllowed == InitWith(AllowedFrames, AllowedConfigs)

SpecAllowed == InitAllowed /\ [][Next]_vars

(* C6: under an allowed-values rule on an existing column, a row gets a    *)
(* value-not-allowed issue for the column (one, carrying the value)        *)
(* exactly when its value is present and no member of the allowed list; a  *)
(* missing value gets none.                                                *)
C6_NotAllowedIffPresentAndNotMember ==
    Returned =>
        \A a \in Range(cfg.allowed_values) :
            a[1] \in Range(df.columns) =>
                \A i \in Index(df) :
                    LET v == df.rows[i][a[1]]
                        n == Count(issues, LAMBDA x : /\ x.row_index = i - 1
                                                      /\ x.column = a[1]
                                                      /\ x.issue = MsgNotAllowed(a[2])
                                                      /\ x.value = v)
                    IN  n = (IF v # NaN /\ v \notin Range(a[2]) THEN 1 ELSE 0)

(* country=SK,CZ with country required: the missing country is a missing   *)
(* value and not a disallowed one, AT is disallowed.                       *)
C6_Witness ==
    /\ pc = "done"
    /\ cfg.required_cols = <<"country">>
    /\ cfg.allowed_values = <<<<"country", <<SK, CZ>>>>>>
    /\ Len(df.rows) = 2
    /\ df.rows[1]["country"] = NaN
    /\ df.rows[2]["country"] = AT
    /\ issues = <<Issue(0, "country", MsgMissingValue, None),
                  Issue(NoRow, "zip", MsgMissingKey, None),
                  Issue(1, "country", "Value not allowed (allowed=['SK', 'CZ'])", AT)>>

(* ------------------------------- C7 ------------------------------------ *)

(* C7: for every issue list, the empty one included, issues_to_df gives a  *)
(* table with exactly the columns row_index, column, issue, value in that  *)
(* order and one row per Issue in the order of the list.                   *)
C7_ExportHasFourColumns ==
    pc = "exported" =>
        /\ table.columns = <<"row_index", "column", "issue", "value">>
        /\ Len(table.data) = Len(issues)
        /\ \A k \in DOMAIN issues : table.data[k] = issues[k]

(* ------------------------------- C8 ------------------------------------ *)

RemoveAt(seq, k) == SubSeq(seq, 1, k - 1) \o SubSeq(seq, k + 1, Len(seq))

(* The entries of expected_types on an existing column whose type name is  *)
(* none of int, float, datetime, string.                                   *)
MalformedEntries ==
    {k \in DOMAIN cfg.expected_types :
        /\ cfg.expected_types[k][1] \in Range(df.columns)
        /\ cfg.expected_types[k][2] \notin {"int", "float", "datetime", "string"}}

IsUnknownTypeIssue(x, e) ==
    x.row_index = NoRow /\ x.column = e[1] /\ x.issue = MsgUnknownType(e[2])

(* C8: for an entry of expected_types on an existing column with an        *)
(* unknown type name, the returned list holds exactly one dataset-level    *)
(* issue naming the column and the type name, no type-mismatch issue for   *)
(* the column, and, that one issue apart, is the list the same dataset     *)
(* gets under the configuration without the entry.                         *)
C8_UnknownTypeIsolated ==
    Returned =>
        \A k \in MalformedEntries :
            LET e == cfg.expected_types[k]
            IN  /\ Count(issues, LAMBDA x : IsUnknownTypeIssue(x, e)) = 1
                /\ \A j \in DOMAIN issues :
                        issues[j].column = e[1] =>
                            \A t \in {"int", "float", "datetime", "string", e[2]} :
                                issues[j].issue # MsgTypeMismatch(t)
                /\ SelectSeq(issues, LAMBDA x : ~IsUnknownTypeIssue(x, e))
                     = Validate(df, [cfg EXCEPT !.expected_types = RemoveAt(@, k)])

(* The malformed entry comes first; a later type rule, the range rule, the *)
(* allowed-values rule and the email rule all report after it.             *)
C8_Witness ==
    /\ pc = "done"
    /\ MalformedEntries = {1}
    /\ \A n \in 4..7 : \E j \in DOMAIN issues : Evaluator(issues[j].issue) = n
    /\ \E j \in DOMAIN issues :
            issues[j].issue = MsgTypeMismatch("int") /\ issues[j].column = "email"

(* ------------------------------- C9 ------------------------------------ *)

(* C9: a second call of validate_dataframe on the same dataset and rules   *)
(* returns the issue list and the summary the first call returned.         *)
C9_SecondRunIdentical ==
    (Returned /\ runs >= 2) =>
        (issues = last.issues /\ summary = last.summary)

(* A second run has returned, with several issues. *)
C9_Witness ==
    /\ pc = "done"
    /\ runs = 2
    /\ Len(issues) >= 3
    /\ issues = last.issues

(* ------------------------------- C10 ----------------------------------- *)

(* C10: in the returned list the issues are grouped by evaluator in the    *)
(* order of the code: no issue of an earlier evaluator comes after an      *)
(* issue of a later one.                                                   *)
C10_EvaluatorOrder ==
    Returned =>
        \A i, j \in DOMAIN issues :
            i < j => /\ Evaluator(issues[i].issue) >= 1
                     /\ Evaluator(issues[i].issue) <= Evaluator(issues[j].issue)

(* A returned list with issues of all seven kinds of check. *)
C10_Witness ==
    /\ pc = "done"
    /\ \A n \in 1..7 : \E j \in DOMAIN issues : Evaluator(issues[j].issue) = n

=============================================================================
